---- MODULE Spec2Model ----
(***************************************************************************)
(* Model of service_creator.py: a one-shot script that renders a systemd   *)
(* unit file from a command file and either prints manual installation     *)
(* instructions (unprivileged) or installs the unit with mv and systemctl.  *)
(*                                                                         *)
(* A text (Python str) is a sequence of atoms.  An atom is one character,   *)
(* or a literal word of the program text / of the environment (a template   *)
(* keyword, a file name) that is treated as indivisible.                    *)
(***************************************************************************)
EXTENDS Integers, Sequences, FiniteSets, TLC

\* ------------------------------------------------------------------------
\* Bounds of the model
\* ------------------------------------------------------------------------
\* number of successive runs of the program with the same inputs
MaxRuns == 2

\* os.geteuid() of root
RootUid == 0

\* ------------------------------------------------------------------------
\* Python str helpers
\* ------------------------------------------------------------------------
Letters == {"s", "v", "c", "M", "y", "e"}
Digits == {"1"}
Whitespace == {" ", "\n", "\t"}

\* str.isalnum() on one character
isalnum(c) == c \in Letters \cup Digits

RECURSIVE lstrip(_)
lstrip(s) == IF s = <<>> THEN s
             ELSE IF Head(s) \in Whitespace THEN lstrip(Tail(s)) ELSE s

RECURSIVE rstrip(_)
rstrip(s) == IF s = <<>> THEN s
             ELSE IF s[Len(s)] \in Whitespace THEN rstrip(SubSeq(s, 1, Len(s) - 1)) ELSE s

\* a buggy strip that trims nothing
strip_none(s) == s

\* str.strip()
strip(s) == rstrip(lstrip(s))

\* c in s
Contains(s, c) == \E i \in 1..Len(s) : s[i] = c

\* s.startswith(p)
StartsWith(s, p) == Len(s) >= Len(p) /\ SubSeq(s, 1, Len(p)) = p

\* index of the first occurrence of c in s (c must occur)
FirstIndex(s, c) == CHOOSE i \in 1..Len(s) : s[i] = c /\ \A j \in 1..(i - 1) : s[j] # c

\* s.split(sep) for a one-atom separator
RECURSIVE split(_, _)
split(s, sep) == IF ~Contains(s, sep) THEN <<s>>
                 ELSE LET i == FirstIndex(s, sep)
                      IN  <<SubSeq(s, 1, i - 1)>> \o split(SubSeq(s, i + 1, Len(s)), sep)

\* sep.join(parts)
RECURSIVE join(_, _)
join(sep, parts) == IF parts = <<>> THEN <<>>
                    ELSE IF Len(parts) = 1 THEN parts[1]
                    ELSE parts[1] \o sep \o join(sep, Tail(parts))

\* ------------------------------------------------------------------------
\* os.path on POSIX
\* ------------------------------------------------------------------------
Slash == <<"/">>
Dot == <<".">>
DotDot == <<".", ".">>

\* the component loop of posixpath.normpath
RECURSIVE normcomps(_, _, _)
normcomps(comps, new_comps, initial_slashes) ==
    IF comps = <<>> THEN new_comps
    ELSE LET comp == Head(comps)
             rest == Tail(comps)
         IN  IF comp = <<>> \/ comp = Dot
                 THEN normcomps(rest, new_comps, initial_slashes)
             ELSE IF \/ comp # DotDot
                     \/ (initial_slashes = 0 /\ new_comps = <<>>)
                     \/ (new_comps # <<>> /\ new_comps[Len(new_comps)] = DotDot)
                 THEN normcomps(rest, Append(new_comps, comp), initial_slashes)
             ELSE IF new_comps # <<>>
                 THEN normcomps(rest, SubSeq(new_comps, 1, Len(new_comps) - 1), initial_slashes)
             ELSE normcomps(rest, new_comps, initial_slashes)

\* posixpath.normpath
normpath(path) ==
    IF path = <<>> THEN Dot
    ELSE LET initial_slashes ==
                 IF ~StartsWith(path, Slash) THEN 0
                 ELSE IF StartsWith(path, <<"/", "/">>) /\ ~StartsWith(path, <<"/", "/", "/">>)
                      THEN 2 ELSE 1
             body == join(Slash, normcomps(split(path, "/"), <<>>, initial_slashes))
             res == IF initial_slashes = 2 THEN <<"/", "/">> \o body
                    ELSE IF initial_slashes = 1 THEN Slash \o body
                    ELSE body
         IN  IF res = <<>> THEN Dot ELSE res

\* posixpath.join(a, b)
pathjoin(a, b) == IF StartsWith(b, Slash) THEN b
                  ELSE IF a = <<>> \/ a[Len(a)] = "/" THEN a \o b
                  ELSE a \o Slash \o b

\* os.path.abspath with the process's current directory dir
abspath(path, dir) == normpath(IF StartsWith(path, Slash) THEN path ELSE pathjoin(dir, path))

\* ------------------------------------------------------------------------
\* The filesystem: a function from canonical absolute paths to entries
\* ------------------------------------------------------------------------
Dir == [kind |-> "dir", content |-> <<>>]
File(text) == [kind |-> "file", content |-> text]

ispresent(files, p) == p \in DOMAIN files
isdirentry(files, p) == p \in DOMAIN files /\ files[p].kind = "dir"

\* canonical text of an absolute component list
canon(comps) == Slash \o join(Slash, comps)

\* the kernel's path walk: every component but the last is looked up in a directory
RECURSIVE walk(_, _, _)
walk(files, cur, comps) ==
    IF comps = <<>>
        THEN (IF ispresent(files, canon(cur)) THEN <<canon(cur)>> ELSE <<>>)
    ELSE IF ~isdirentry(files, canon(cur)) THEN <<>>
    ELSE LET comp == Head(comps)
         IN  IF comp = <<>> \/ comp = Dot THEN walk(files, cur, Tail(comps))
             ELSE IF comp = DotDot
                 THEN walk(files, IF cur = <<>> THEN cur ELSE SubSeq(cur, 1, Len(cur) - 1), Tail(comps))
             ELSE walk(files, Append(cur, comp), Tail(comps))

\* stat(path): <<canonical path>> of the entry, or << >> when there is none
stat(files, dir, path) ==
    IF path = <<>> THEN <<>>
    ELSE IF StartsWith(path, Slash) THEN walk(files, <<>>, split(path, "/"))
    ELSE walk(files, normcomps(split(dir, "/"), <<>>, 1), split(path, "/"))

\* os.path.exists
exists(files, dir, path) == stat(files, dir, path) # <<>>

\* os.path.isdir
isdir(files, dir, path) ==
    /\ stat(files, dir, path) # <<>>
    /\ files[stat(files, dir, path)[1]].kind = "dir"

\* ------------------------------------------------------------------------
\* State
\* ------------------------------------------------------------------------
VARIABLES
    argv,               \* sys.argv, argv[1] the program name
    euid,               \* os.geteuid() of the process
    cwd,                \* current directory of the process
    fs,                 \* the filesystem
    systemd,            \* what systemctl has done: reloaded, enabled units, started units
    pc,                 \* position of the run in main / create_service
    command_file,       \* parameters and locals of create_service
    service_name,
    working_directory,  \* << >> for None, <<text>> otherwise
    command,
    service_content,
    out,                \* what the run has put on the terminal, in order
    calls,              \* argv of every subprocess.run of the run, in order
    results,            \* outcome of each of calls
    success,            \* create_service: "none" (running), "true", "false", "raised"
    exit_code,          \* -1 while the process runs
    geteuid_calls,      \* number of os.geteuid() reads of the run
    cmd_existed,        \* os.path.exists(command) as read on line 47 of the run
    staged,             \* << >>, or <<text written to the staging path by the run>>
    runs,               \* number of the current run
    history             \* one record per earlier run

vars == <<argv, euid, cwd, fs, systemd, pc, command_file, service_name, working_directory,
          command, service_content, out, calls, results, success, exit_code,
          geteuid_calls, cmd_existed, staged, runs, history>>

inputs == <<argv, euid, cwd>>
locals == <<command_file, service_name, working_directory, command, service_content>>

\* ------------------------------------------------------------------------
\* Input sets
\* ------------------------------------------------------------------------
ProgramName == <<"service_creator.py">>

TmpDir == <<"/", "tmp">>
SrvDir == <<"/", "srv">>
SystemDir == <<"/", "etc", "/", "systemd", "/", "system">>
CmdFilePath == <<"/", "tmp", "/", "cmd">>

\* contents of the command file
CommandTexts ==
    { <<>>,
      <<" ", "\n">>,
      <<"run", "\n">>,
      <<" ", "run", " ", "arg", "\n">>,
      <<"/", "tmp", "/", ".", "/", "run">>,
      <<"nosuch">>,
      <<"s", "v", "c", ".service">>,
      <<"run", "\n", "Restart=", "always", "\n">> }

\* command_file arguments: relative, absolute, a directory, a missing file
CommandFileArgs == { <<"cmd">>, CmdFilePath, SrvDir, <<"/", "nofile">> }

\* service_name arguments
ServiceNameArgs ==
    { <<"s", "v", "c">>,
      <<"M", "y", " ", "s", "!">>,
      <<"s", "-", "1", "_", ".">>,
      <<"!", " ">> }

\* working_directory arguments
WorkingDirectoryArgs ==
    { <<>>,
      SrvDir,
      <<".", ".", "/", "srv">>,
      <<"/", "nodir">>,
      <<"/", "tmp", "/", "run">>,
      <<"s", "v", "c", ".service">> }

ArgvSet ==
    { <<ProgramName>>, <<ProgramName, CmdFilePath>> }
    \cup { <<ProgramName, cf, n>> : cf \in CommandFileArgs, n \in ServiceNameArgs }
    \cup { <<ProgramName, cf, n, wd>> :
              cf \in CommandFileArgs, n \in ServiceNameArgs, wd \in WorkingDirectoryArgs }
    \cup { <<ProgramName, CmdFilePath, <<"s", "v", "c">>, SrvDir, <<"x">>>> }

\* the filesystem before the first run, with text in the command file
InitialFs(text) ==
    (<<"/">> :> Dir) @@ (TmpDir :> Dir) @@ (SrvDir :> Dir)
    @@ (<<"/", "etc">> :> Dir) @@ (<<"/", "etc", "/", "systemd">> :> Dir) @@ (SystemDir :> Dir)
    @@ (CmdFilePath :> File(text))
    @@ (<<"/", "tmp", "/", "run">> :> File(<<"#!/bin/sh">>))
    @@ (<<"/", "tmp", "/", "run", " ", "arg">> :> File(<<"#!/bin/sh">>))

\* outcomes of one subprocess.run(..., check=True): the tool exits 0, exits non-zero
\* (CalledProcessError), or cannot be executed at all (OSError)
Outcomes == {"ok", "nonzero", "oserror"}

\* ------------------------------------------------------------------------
\* Pure parts of create_service
\* ------------------------------------------------------------------------
\* a buggy filter that also keeps the dot
sanitize_keep_dot(name) == SelectSeq(name, LAMBDA c : isalnum(c) \/ c \in {"-", "_", "."})

\* line 38
sanitize(name) == SelectSeq(name, LAMBDA c : isalnum(c) \/ c \in {"-", "_"})

\* line 43
service_filename(name) == name \o <<".service">>
\* line 44
service_path(name) == SystemDir \o Slash \o service_filename(name)
\* line 78
temp_service_path(name) == TmpDir \o Slash \o service_filename(name)

\* a buggy normalizer that forgets the test for a space
normalize_no_space_test(cmd, files, dir) ==
    IF exists(files, dir, cmd) THEN abspath(cmd, dir) ELSE cmd

\* lines 47-48
normalize(cmd, files, dir) ==
    IF ~Contains(cmd, " ") /\ exists(files, dir, cmd) THEN abspath(cmd, dir) ELSE cmd

\* a buggy test that accepts any existing entry as a working directory
directory_usable_exists(wd, files, dir) ==
    wd # <<>> /\ wd[1] # <<>> /\ exists(files, dir, wd[1])

\* lines 61-62: the WorkingDirectory line is added
directory_usable(wd, files, dir) ==
    wd # <<>> /\ wd[1] # <<>> /\ isdir(files, dir, wd[1])

\* lines 61, 65-66: the warning is printed
directory_warned(wd, files, dir) ==
    wd # <<>> /\ wd[1] # <<>> /\ ~isdir(files, dir, wd[1])

\* lines 51-75
render(name, cmd, wd, files, dir) ==
    <<"[Unit]", "\n",
      "Description=">> \o name \o <<" service", "\n",
      "After=", "network.target", "\n",
      "\n",
      "[Service]", "\n",
      "Type=", "simple", "\n",
      "ExecStart=">> \o cmd \o <<"\n">>
    \o (IF directory_usable(wd, files, dir)
           THEN <<"WorkingDirectory=">> \o abspath(wd[1], dir) \o <<"\n">>
           ELSE <<>>)
    \o <<"Restart=", "on-failure", "\n",
         "RestartSec=", "5", "\n",
         "StandardOutput=", "journal", "\n",
         "StandardError=", "journal", "\n",
         "\n",
         "[Install]", "\n",
         "WantedBy=", "multi-user.target", "\n">>

\* a buggy privilege test that takes every user for root
is_root_always(uid) == TRUE

\* line 83
is_root(uid) == uid = RootUid

\* a buggy exit status that is always 0
exit_status_zero(ok) == 0

\* lines 120-122
exit_status(ok) == IF ok THEN 0 ELSE 1

\* ------------------------------------------------------------------------
\* Terminal output
\* ------------------------------------------------------------------------
Printed(text) == [by |-> "program", text |-> text]
Traceback(exc) == [by |-> "interpreter", text |-> <<"Traceback (most recent call last): ", exc>>]

\* repr of a list of str
RECURSIVE reprlist(_)
reprlist(args) == IF args = <<>> THEN <<>>
                  ELSE <<"'">> \o Head(args) \o <<"'">>
                       \o (IF Len(args) > 1 THEN <<", ">> ELSE <<>>) \o reprlist(Tail(args))

\* str(CalledProcessError)
CalledProcessErrorText(args) ==
    <<"Command '[">> \o reprlist(args) \o <<"]' returned non-zero exit status ", "1", ".">>

UsageMessage == Printed(<<"Usage: python service_creator.py command_file service_name [working_directory]">>)
NotFoundMessage(cf) == Printed(<<"Error: Command file '">> \o cf \o <<"' not found.">>)
EmptyMessage == Printed(<<"Error: Command file is empty.">>)
NoValidCharsMessage == Printed(<<"Error: Service name contains no valid characters.">>)
WarningMessage(wd) == Printed(<<"Warning: Working directory '">> \o wd \o <<"' does not exist.">>)
InstallFailedMessage(args) ==
    Printed(<<"Error: Failed to install service. ">> \o CalledProcessErrorText(args))

\* lines 84-90
AdviceMessages(name) ==
    << Printed(<<"This script needs root privileges to create a system service.">>),
       Printed(<<"Service file created at: ">> \o temp_service_path(name)),
       Printed(<<"Run the following commands to install the service:">>),
       Printed(<<"sudo mv ">> \o temp_service_path(name) \o <<" ">> \o service_path(name)),
       Printed(<<"sudo systemctl daemon-reload">>),
       Printed(<<"sudo systemctl enable ">> \o service_filename(name)),
       Printed(<<"sudo systemctl start ">> \o service_filename(name)) >>

\* lines 103-104
InstalledMessages(name) ==
    << Printed(<<"Service '">> \o name \o <<"' has been created and enabled.">>),
       Printed(<<"You can check its status with: sudo systemctl status ">> \o service_filename(name)) >>

\* argv of the four subprocess.run calls, lines 96, 99, 100, 101
MvArgs(name) == << <<"mv">>, temp_service_path(name), service_path(name) >>
ReloadArgs == << <<"systemctl">>, <<"daemon-reload">> >>
EnableArgs(name) == << <<"systemctl">>, <<"enable">>, service_filename(name) >>
StartArgs(name) == << <<"systemctl">>, <<"start">>, service_filename(name) >>

\* ------------------------------------------------------------------------
\* Initial states: one process about to run main() on a freshly set up machine
\* ------------------------------------------------------------------------
NoSystemd == [reloaded |-> FALSE, enabled |-> {}, started |-> {}]

Init ==
    /\ argv \in ArgvSet
    /\ euid \in {RootUid, 1000}
    /\ cwd \in {TmpDir, SrvDir}
    /\ \E text \in CommandTexts : fs = InitialFs(text)
    /\ systemd = NoSystemd
    /\ pc = "main"
    /\ command_file = <<>>
    /\ service_name = <<>>
    /\ working_directory = <<>>
    /\ command = <<>>
    /\ service_content = <<>>
    /\ out = <<>>
    /\ calls = <<>>
    /\ results = <<>>
    /\ success = "none"
    /\ exit_code = -1
    /\ geteuid_calls = 0
    /\ cmd_existed = FALSE
    /\ staged = <<>>
    /\ runs = 1
    /\ history = <<>>

\* ------------------------------------------------------------------------
\* main, lines 111-118
\* ------------------------------------------------------------------------
main_usage ==
    /\ pc = "main"
    /\ (Len(argv) < 3 \/ Len(argv) > 4)
    /\ out' = Append(out, UsageMessage)
    /\ exit_code' = 1
    /\ pc' = "exited"
    /\ UNCHANGED <<inputs, fs, systemd, locals, calls, results, success,
                   geteuid_calls, cmd_existed, staged, runs, history>>

main_call ==
    /\ pc = "main"
    /\ ~(Len(argv) < 3 \/ Len(argv) > 4)
    /\ command_file' = argv[2]
    /\ service_name' = argv[3]
    /\ working_directory' = IF Len(argv) = 4 THEN <<argv[4]>> ELSE <<>>
    /\ pc' = "check_file"
    /\ UNCHANGED <<inputs, fs, systemd, command, service_content, out, calls, results,
                   success, exit_code, geteuid_calls, cmd_existed, staged, runs, history>>

\* ------------------------------------------------------------------------
\* create_service
\* ------------------------------------------------------------------------
\* return False after print(message)
fail_with(message) ==
    /\ out' = Append(out, message)
    /\ success' = "false"
    /\ pc' = "returned"

\* lines 25-27
check_command_file ==
    /\ pc = "check_file"
    /\ IF ~exists(fs, cwd, command_file)
          THEN fail_with(NotFoundMessage(command_file))
          ELSE pc' = "read" /\ UNCHANGED <<out, success>>
    /\ UNCHANGED <<inputs, fs, systemd, locals, calls, results, exit_code,
                   geteuid_calls, cmd_existed, staged, runs, history>>

\* lines 30-35; open() of a directory raises IsADirectoryError, which nothing catches
read_command ==
    /\ pc = "read"
    /\ LET entry == fs[stat(fs, cwd, command_file)[1]]
       IN  IF entry.kind = "dir"
              THEN /\ success' = "raised"
                   /\ pc' = "raised"
                   /\ UNCHANGED <<command, out>>
           ELSE IF strip(entry.content) = <<>>
              THEN /\ command' = strip(entry.content)
                   /\ fail_with(EmptyMessage)
           ELSE /\ command' = strip(entry.content)
                /\ pc' = "sanitize"
                /\ UNCHANGED <<out, success>>
    /\ UNCHANGED <<inputs, fs, systemd, command_file, service_name, working_directory,
                   service_content, calls, results, exit_code, geteuid_calls, cmd_existed,
                   staged, runs, history>>

\* lines 38-41
sanitize_name ==
    /\ pc = "sanitize"
    /\ service_name' = sanitize(service_name)
    /\ IF sanitize(service_name) = <<>>
          THEN fail_with(NoValidCharsMessage)
          ELSE pc' = "normalize" /\ UNCHANGED <<out, success>>
    /\ UNCHANGED <<inputs, fs, systemd, command_file, working_directory, command,
                   service_content, calls, results, exit_code, geteuid_calls, cmd_existed,
                   staged, runs, history>>

\* lines 47-48
normalize_command ==
    /\ pc = "normalize"
    /\ command' = normalize(command, fs, cwd)
    /\ cmd_existed' = exists(fs, cwd, command)
    /\ pc' = "render"
    /\ UNCHANGED <<inputs, fs, systemd, command_file, service_name, working_directory,
                   service_content, out, calls, results, success, exit_code, geteuid_calls,
                   staged, runs, history>>

\* lines 51-75
render_content ==
    /\ pc = "render"
    /\ service_content' = render(service_name, command, working_directory, fs, cwd)
    /\ working_directory' = IF directory_usable(working_directory, fs, cwd)
                               THEN <<abspath(working_directory[1], cwd)>>
                               ELSE working_directory
    /\ out' = IF directory_warned(working_directory, fs, cwd)
                 THEN Append(out, WarningMessage(working_directory[1]))
                 ELSE out
    /\ pc' = "write"
    /\ UNCHANGED <<inputs, fs, systemd, command_file, service_name, command, calls, results,
                   success, exit_code, geteuid_calls, cmd_existed, staged, runs, history>>

\* lines 78-80
write_temp ==
    /\ pc = "write"
    /\ fs' = [p \in DOMAIN fs \cup {temp_service_path(service_name)} |->
                 IF p = temp_service_path(service_name) THEN File(service_content) ELSE fs[p]]
    /\ staged' = <<service_content>>
    /\ pc' = "geteuid"
    /\ UNCHANGED <<inputs, systemd, locals, out, calls, results, success, exit_code,
                   geteuid_calls, cmd_existed, runs, history>>

\* lines 83-91
advise ==
    /\ pc = "geteuid"
    /\ ~is_root(euid)
    /\ geteuid_calls' = geteuid_calls + 1
    /\ out' = out \o AdviceMessages(service_name)
    /\ success' = "true"
    /\ pc' = "returned"
    /\ UNCHANGED <<inputs, fs, systemd, locals, calls, results, exit_code, cmd_existed,
                   staged, runs, history>>

\* line 83, root
enter_install ==
    /\ pc = "geteuid"
    /\ is_root(euid)
    /\ geteuid_calls' = geteuid_calls + 1
    /\ pc' = "mv"
    /\ UNCHANGED <<inputs, fs, systemd, locals, out, calls, results, success, exit_code,
                   cmd_existed, staged, runs, history>>

\* subprocess.run(args, check=True) at position here, continuing at next when the tool exits 0
run_tool(here, next, args, outcome) ==
    /\ pc = here
    /\ calls' = Append(calls, args)
    /\ results' = Append(results, outcome)
    /\ pc' = CASE outcome = "ok" -> next
               [] outcome = "nonzero" -> "except"
               [] outcome = "oserror" -> "raised"
    /\ success' = IF outcome = "oserror" THEN "raised" ELSE success

\* the file at src is renamed to dst
moved(files, src, dst) ==
    [p \in (DOMAIN files \ {src}) \cup {dst} |-> IF p = dst THEN files[src] ELSE files[p]]

\* line 96; an mv that does not exit 0 has moved nothing
run_mv ==
    \E outcome \in Outcomes :
        /\ run_tool("mv", "reload", MvArgs(service_name), outcome)
        /\ fs' = IF outcome = "ok"
                    THEN moved(fs, temp_service_path(service_name), service_path(service_name))
                    ELSE fs
        /\ UNCHANGED <<inputs, systemd, locals, out, exit_code, geteuid_calls, cmd_existed,
                       staged, runs, history>>

\* line 99
run_daemon_reload ==
    \E outcome \in Outcomes :
        /\ run_tool("reload", "enable", ReloadArgs, outcome)
        /\ systemd' = IF outcome = "ok" THEN [systemd EXCEPT !.reloaded = TRUE] ELSE systemd
        /\ UNCHANGED <<inputs, fs, locals, out, exit_code, geteuid_calls, cmd_existed,
                       staged, runs, history>>

\* line 100
run_enable ==
    \E outcome \in Outcomes :
        /\ run_tool("enable", "start", EnableArgs(service_name), outcome)
        /\ systemd' = IF outcome = "ok"
                         THEN [systemd EXCEPT !.enabled = @ \cup {service_filename(service_name)}]
                         ELSE systemd
        /\ UNCHANGED <<inputs, fs, locals, out, exit_code, geteuid_calls, cmd_existed,
                       staged, runs, history>>

\* line 101
run_start ==
    \E outcome \in Outcomes :
        /\ run_tool("start", "installed", StartArgs(service_name), outcome)
        /\ systemd' = IF outcome = "ok"
                         THEN [systemd EXCEPT !.started = @ \cup {service_filename(service_name)}]
                         ELSE systemd
        /\ UNCHANGED <<inputs, fs, locals, out, exit_code, geteuid_calls, cmd_existed,
                       staged, runs, history>>

\* lines 103-105
report_installed ==
    /\ pc = "installed"
    /\ out' = out \o InstalledMessages(service_name)
    /\ success' = "true"
    /\ pc' = "returned"
    /\ UNCHANGED <<inputs, fs, systemd, locals, calls, results, exit_code, geteuid_calls,
                   cmd_existed, staged, runs, history>>

\* lines 107-109
except_called_process_error ==
    /\ pc = "except"
    /\ fail_with(InstallFailedMessage(calls[Len(calls)]))
    /\ UNCHANGED <<inputs, fs, systemd, locals, calls, results, exit_code, geteuid_calls,
                   cmd_existed, staged, runs, history>>

\* ------------------------------------------------------------------------
\* End of the process
\* ------------------------------------------------------------------------
\* lines 120-122
main_exit ==
    /\ pc = "returned"
    /\ exit_code' = exit_status(success = "true")
    /\ pc' = "exited"
    /\ UNCHANGED <<inputs, fs, systemd, locals, out, calls, results, success,
                   geteuid_calls, cmd_existed, staged, runs, history>>

\* an exception leaves main: the interpreter prints the traceback and exits with status 1
uncaught_exception ==
    /\ pc = "raised"
    /\ out' = Append(out, Traceback(IF calls = <<>> THEN "IsADirectoryError" ELSE "OSError"))
    /\ exit_code' = 1
    /\ pc' = "exited"
    /\ UNCHANGED <<inputs, fs, systemd, locals, calls, results, success, geteuid_calls,
                   cmd_existed, staged, runs, history>>

\* what is kept of a finished run
RunRecord ==
    [service_name |-> service_name, command |-> command, staged |-> staged,
     cmd_existed |-> cmd_existed, exit_code |-> exit_code]

\* the user runs the program again with the same arguments, user and directory
run_again ==
    /\ pc = "exited"
    /\ runs < MaxRuns
    /\ runs' = runs + 1
    /\ history' = Append(history, RunRecord)
    /\ pc' = "main"
    /\ command_file' = <<>>
    /\ service_name' = <<>>
    /\ working_directory' = <<>>
    /\ command' = <<>>
    /\ service_content' = <<>>
    /\ out' = <<>>
    /\ calls' = <<>>
    /\ results' = <<>>
    /\ success' = "none"
    /\ exit_code' = -1
    /\ geteuid_calls' = 0
    /\ cmd_existed' = FALSE
    /\ staged' = <<>>
    /\ UNCHANGED <<inputs, fs, systemd>>

Next ==
    \/ main_usage
    \/ main_call
    \/ check_command_file
    \/ read_command
    \/ sanitize_name
    \/ normalize_command
    \/ render_content
    \/ write_temp
    \/ advise
    \/ enter_install
    \/ run_mv
    \/ run_daemon_reload
    \/ run_enable
    \/ run_start
    \/ report_installed
    \/ except_called_process_error
    \/ main_exit
    \/ uncaught_exception
    \/ run_again

Spec == Init /\ [][Next]_vars

\* ------------------------------------------------------------------------
\* Vocabulary of the properties
\* ------------------------------------------------------------------------
ArgsOk == Len(argv) \in {3, 4}
Exited == pc = "exited"
Privileged == euid = RootUid

\* the characters a service name may keep
Allowed(c) == c \in Letters \cup Digits \cup {"-", "_"}
AllowedIdx(n) == {i \in 1..Len(n) : Allowed(n[i])}
\* n without its characters that are not Allowed, in the order of n
Kept(n) ==
    [k \in 1..Cardinality(AllowedIdx(n)) |->
        n[CHOOSE i \in AllowedIdx(n) : Cardinality({j \in AllowedIdx(n) : j <= i}) = k]]

\* the staging and system paths of the unit named by the raw argument n
StagingPathOf(n) == <<"/", "tmp", "/">> \o Kept(n) \o <<".service">>
SystemPathOf(n) == <<"/", "etc", "/", "systemd", "/", "system", "/">> \o Kept(n) \o <<".service">>

IsUnitFile(p) == p # <<>> /\ p[Len(p)] = ".service"
NoUnitFileAnywhere == \A p \in DOMAIN fs : ~IsUnitFile(p)

\* the command file as the run finds it
CommandFileMissing == ~exists(fs, cwd, argv[2])
CommandFileEntry == fs[stat(fs, cwd, argv[2])[1]]
CommandFileBlank ==
    /\ ~CommandFileMissing
    /\ CommandFileEntry.kind = "file"
    /\ \A i \in 1..Len(CommandFileEntry.content) : CommandFileEntry.content[i] \in Whitespace
NameUnusable == \A i \in 1..Len(argv[3]) : ~Allowed(argv[3][i])

\* the trimmed command string of a run whose command file is readable
TrimmedCommand == strip(CommandFileEntry.content)

\* the lines of a unit file that set a field, as <<key, value>>
Keys == {"Description=", "After=", "Type=", "ExecStart=", "WorkingDirectory=", "Restart=",
         "RestartSec=", "StandardOutput=", "StandardError=", "WantedBy="}
FieldLines(text) == SelectSeq(split(text, "\n"), LAMBDA l : l # <<>> /\ l[1] \in Keys)
FieldKeys(text) == [i \in 1..Len(FieldLines(text)) |-> FieldLines(text)[i][1]]
HasKey(text, key) == \E i \in 1..Len(FieldKeys(text)) : FieldKeys(text)[i] = key

AllOk == results = <<"ok", "ok", "ok", "ok">>
FirstFailure(k) == k \in 1..Len(results) /\ results[k] # "ok" /\ \A j \in 1..(k - 1) : results[j] = "ok"
AdviceGiven == \E i \in 1..Len(out) :
                   out[i] = Printed(<<"Run the following commands to install the service:">>)

\* a message of the program that reports a failure
IsDiagnostic(m) ==
    /\ m.by = "program"
    /\ m.text[1] \in {"Usage: python service_creator.py command_file service_name [working_directory]",
                      "Error: Command file '", "Error: Command file is empty.",
                      "Error: Service name contains no valid characters.",
                      "Error: Failed to install service. "}

\* ------------------------------------------------------------------------
\* C1
\* ------------------------------------------------------------------------
\* C1: in a privileged run that passed validation the external steps are attempted in the
\* order mv, daemon-reload, enable, start; when step k is the first to fail no later step
\* is invoked, the failure is reported by the program, create_service returns failure and the
\* effects of steps 1..k-1 stay; success is returned only when all four steps succeeded.
C1_FirstFailureAbortsAndReports ==
    (Privileged /\ staged # <<>>) =>
        /\ Len(calls) <= 4
        /\ \A i \in 1..Len(calls) :
               calls[i] = << MvArgs(service_name), ReloadArgs,
                             EnableArgs(service_name), StartArgs(service_name) >>[i]
        /\ \A k \in 1..Len(results) : FirstFailure(k) => Len(calls) = k
        /\ success = "true" => AllOk
        /\ \A k \in 1..Len(results) :
               (Exited /\ FirstFailure(k)) =>
                   /\ success = "false"
                   /\ exit_code = 1
                   /\ \E i \in 1..Len(out) : out[i] = InstallFailedMessage(calls[k])
                   /\ k > 1 => /\ SystemPathOf(argv[3]) \in DOMAIN fs
                               /\ fs[SystemPathOf(argv[3])].content = staged[1]
                   /\ k > 2 => systemd.reloaded
                   /\ k > 3 => service_filename(service_name) \in systemd.enabled

\* ------------------------------------------------------------------------
\* C2
\* ------------------------------------------------------------------------
\* C2: the effective uid is read at most once per run; an unprivileged run never invokes
\* mv or systemctl and leaves the system unit directory and systemd untouched; when it passed
\* validation the unit file is at /tmp/<service_name>.service, the staging path and the
\* commands move, daemon-reload, enable, start were printed last and in that order,
\* create_service returned success and the exit code is 0.
C2_AdvisoryRunOnlyAdvises ==
    /\ geteuid_calls <= 1
    /\ ~Privileged =>
           /\ calls = <<>>
           /\ systemd = NoSystemd
           /\ \A p \in DOMAIN fs : ~StartsWith(p, SystemDir \o Slash)
    /\ (~Privileged /\ staged # <<>> /\ Exited) =>
           /\ geteuid_calls = 1
           /\ StagingPathOf(argv[3]) \in DOMAIN fs
           /\ fs[StagingPathOf(argv[3])] = File(staged[1])
           /\ staged[1] = service_content
           /\ success = "true"
           /\ exit_code = 0
           /\ Len(out) >= 6
           /\ LET n == Len(out)
                  unit == Kept(argv[3]) \o <<".service">>
              IN  /\ out[n - 5] = Printed(<<"Service file created at: ">> \o StagingPathOf(argv[3]))
                  /\ out[n - 3] = Printed(<<"sudo mv ">> \o StagingPathOf(argv[3])
                                          \o <<" ">> \o SystemPathOf(argv[3]))
                  /\ out[n - 2] = Printed(<<"sudo systemctl daemon-reload">>)
                  /\ out[n - 1] = Printed(<<"sudo systemctl enable ">> \o unit)
                  /\ out[n] = Printed(<<"sudo systemctl start ">> \o unit)

\* an unprivileged run that passed validation has ended
C2_Witness == ~Privileged /\ staged # <<>> /\ Exited /\ exit_code = 0 /\ AdviceGiven

\* ------------------------------------------------------------------------
\* C3
\* ------------------------------------------------------------------------
\* C3: a finished run has exit code 0 exactly when it ended on the advisory path or with all
\* four install steps succeeded, and exit code 1 otherwise: for a missing command file, an
\* empty command, a service name without valid characters, a failed install step, and for
\* an argument count other than 2 or 3, which also prints the usage message.
C3_ExitCodes ==
    Exited =>
        /\ exit_code \in {0, 1}
        /\ exit_code = 0 <=> (AdviceGiven \/ AllOk)
        /\ ~ArgsOk => (exit_code = 1 /\ out = <<UsageMessage>> /\ staged = <<>>)
        /\ (ArgsOk /\ CommandFileMissing) => exit_code = 1
        /\ (ArgsOk /\ CommandFileBlank) => exit_code = 1
        /\ (ArgsOk /\ NameUnusable) => exit_code = 1
        /\ (\E k \in 1..Len(results) : results[k] # "ok") => exit_code = 1
        /\ AdviceGiven => (~Privileged /\ staged # <<>>)

\* a privileged run has ended after its enable step failed
C3_Witness == Exited /\ exit_code = 1 /\ Len(results) = 3 /\ results[3] = "nonzero"

\* ------------------------------------------------------------------------
\* C4
\* ------------------------------------------------------------------------
\* C4: when the command file is missing or holds only whitespace, no unit file is written at
\* the staging path or the system path, no external tool is invoked, and the exit code is
\* non-zero, whatever the service name, working directory and privilege.
C4_NoCommandNoUnitFile ==
    (ArgsOk /\ (CommandFileMissing \/ CommandFileBlank)) =>
        /\ staged = <<>>
        /\ \A i \in 1..Len(history) : history[i].staged = <<>>
        /\ NoUnitFileAnywhere
        /\ calls = <<>>
        /\ systemd = NoSystemd
        /\ Exited => exit_code = 1

\* a privileged run on a command file of blanks only has ended
C4_Witness ==
    /\ ArgsOk /\ Exited /\ Privileged
    /\ CommandFileBlank /\ CommandFileEntry.content # <<>>
    /\ out = <<EmptyMessage>>

\* ------------------------------------------------------------------------
\* C5
\* ------------------------------------------------------------------------
\* C5: sanitization keeps exactly the letters, digits, '-' and '_' of the name in their
\* order; when the result is non-empty every unit file written is named by it, at the staging
\* path or the system path, and its Description field is "<result> service"; when the result
\* is empty the run writes no file and exits non-zero.
C5_SanitizedNameIsUsed ==
    ArgsOk =>
        /\ (pc \in {"normalize", "render", "write"} \/ staged # <<>>) =>
               (service_name = Kept(argv[3]) /\ service_name # <<>>)
        /\ \A p \in DOMAIN fs :
               IsUnitFile(p) =>
                   /\ p \in {StagingPathOf(argv[3]), SystemPathOf(argv[3])}
                   /\ FieldLines(fs[p].content)[1]
                          = <<"Description=">> \o Kept(argv[3]) \o <<" service">>
        /\ staged # <<>> =>
               \/ StagingPathOf(argv[3]) \in DOMAIN fs
               \/ SystemPathOf(argv[3]) \in DOMAIN fs
        /\ NameUnusable =>
               /\ staged = <<>>
               /\ NoUnitFileAnywhere
               /\ Exited => exit_code = 1

\* a unit file was written for a name that lost characters
C5_Witness ==
    /\ ArgsOk /\ Exited /\ staged # <<>>
    /\ Len(Kept(argv[3])) < Len(argv[3])
    /\ \E p \in DOMAIN fs : IsUnitFile(p)

\* ------------------------------------------------------------------------
\* C6
\* ------------------------------------------------------------------------
\* C6: whenever a working-directory argument is present but names no existing directory, a
\* warning is printed, the rendered unit file has no WorkingDirectory= line and is the file
\* rendered without the argument, and the run goes on; a WorkingDirectory= line appears only
\* for an argument that names an existing directory and carries its absolute path.
C6_BadDirectoryWarnsAndIsOmitted ==
    /\ (Len(argv) = 4 /\ pc = "write" /\ ~isdir(fs, cwd, argv[4])) =>
           /\ \E i \in 1..Len(out) : out[i] = WarningMessage(argv[4])
           /\ ~HasKey(service_content, "WorkingDirectory=")
           /\ service_content = render(service_name, command, <<>>, fs, cwd)
    /\ (ArgsOk /\ pc = "write" /\ HasKey(service_content, "WorkingDirectory=")) =>
           /\ Len(argv) = 4
           /\ isdir(fs, cwd, argv[4])
           /\ \E i \in 1..Len(FieldLines(service_content)) :
                  FieldLines(service_content)[i]
                      = <<"WorkingDirectory=">> \o abspath(argv[4], cwd)

\* ------------------------------------------------------------------------
\* C7
\* ------------------------------------------------------------------------
\* C7: the text after ExecStart= is the absolute form of the trimmed command (an absolute
\* path naming the same filesystem entry) when the trimmed command has no space and an entry
\* exists at that path, and is the trimmed command unchanged in every other case, also when
\* it has a space and an entry of that name exists.
C7_ExecStartCommand ==
    pc = "write" =>
        LET raw == TrimmedCommand
            rewritten == ~Contains(raw, " ") /\ exists(fs, cwd, raw)
            i == FirstIndex(service_content, "ExecStart=")
            value == SubSeq(service_content, i + 1, i + Len(command))
        IN  /\ value = command
            /\ service_content[i + Len(command) + 1] = "\n"
            /\ rewritten =>
                   /\ command = abspath(raw, cwd)
                   /\ StartsWith(command, Slash)
                   /\ stat(fs, cwd, command) = stat(fs, cwd, raw)
            /\ ~rewritten => command = raw

\* a command with a space that names an existing entry has been rendered
C7_Witness ==
    /\ pc = "write"
    /\ Contains(TrimmedCommand, " ")
    /\ exists(fs, cwd, TrimmedCommand)
    /\ command = TrimmedCommand

\* ------------------------------------------------------------------------
\* C8
\* ------------------------------------------------------------------------
\* the fields the specification lists for a unit file, in its order
ExpectedFieldLines ==
    << <<"Description=">> \o service_name \o <<" service">>,
       <<"After=", "network.target">>,
       <<"Type=", "simple">>,
       <<"ExecStart=">> \o command >>
    \o (IF Len(argv) = 4 /\ isdir(fs, cwd, argv[4])
           THEN << <<"WorkingDirectory=">> \o abspath(argv[4], cwd) >>
           ELSE <<>>)
    \o << <<"Restart=", "on-failure">>,
          <<"RestartSec=", "5">>,
          <<"StandardOutput=", "journal">>,
          <<"StandardError=", "journal">>,
          <<"WantedBy=", "multi-user.target">> >>

\* C8: every unit file written has exactly the fields Description, After, Type, ExecStart,
\* WorkingDirectory (only for a valid directory, between ExecStart and Restart), Restart,
\* RestartSec, StandardOutput, StandardError, WantedBy, in this order and once each.
C8_FieldsInFixedOrder ==
    staged # <<>> => FieldLines(staged[1]) = ExpectedFieldLines

\* ------------------------------------------------------------------------
\* C9
\* ------------------------------------------------------------------------
\* the unit file staged by run i, and what line 47 saw of the command's path in run i
StagedBy(i) == IF i <= Len(history) THEN history[i].staged ELSE staged
ExistedIn(i) == IF i <= Len(history) THEN history[i].cmd_existed ELSE cmd_existed
BothStaged(i) == ~Privileged /\ StagedBy(i) # <<>> /\ StagedBy(i + 1) # <<>>

\* C9: two successive advisory runs with the same inputs stage the same unit-file content,
\* also when the first run's write of the staging file is the only change in between.
C9_AdvisoryRunsIdempotent ==
    \A i \in 1..Len(history) : BothStaged(i) => StagedBy(i) = StagedBy(i + 1)

\* C9 amended: two successive advisory runs with the same inputs stage the same content
\* provided the trimmed command has a space or the second run finds an entry at the command's
\* path exactly when the first run did.
C9_IdempotentUnlessCommandAppears ==
    \A i \in 1..Len(history) :
        (BothStaged(i) /\ (Contains(TrimmedCommand, " ") \/ ExistedIn(i) = ExistedIn(i + 1)))
            => StagedBy(i) = StagedBy(i + 1)

\* a second advisory run has staged a file whose command was made absolute
C9_Witness ==
    /\ Len(history) >= 1 /\ BothStaged(1)
    /\ cmd_existed /\ command # TrimmedCommand
    /\ StagedBy(1) = StagedBy(2)

\* ------------------------------------------------------------------------
\* C10
\* ------------------------------------------------------------------------
\* C10: every run that ends with a non-zero exit code has printed a diagnostic of the
\* program, and no external step is invoked twice in a run.
C10_EveryFailureIsReported ==
    /\ (Exited /\ exit_code # 0) => \E i \in 1..Len(out) : IsDiagnostic(out[i])
    /\ \A i, j \in 1..Len(calls) : calls[i] = calls[j] => i = j

====
